---- MODULE Spec2Model ----
(***************************************************************************)
(* A state-machine model of src/main.py: the capture loop of               *)
(* capture_images, the metadata decoder extract_coordinates_and_timestamp, *)
(* the numeric helpers haversine_distance and calculate_speed, and main's  *)
(* pairing, averaging, logging and retention cleanup.                      *)
(*                                                                         *)
(* Units.  The source computes with floats; the model computes with        *)
(* integers in finer units, so that every value the source can hold for    *)
(* the inputs enumerated here is represented exactly:                      *)
(*   clock instants       ticks, TicksPerSec ticks to the second           *)
(*   file sizes           bytes (the source divides by 1024*1024)          *)
(*   latitude, longitude  arc-seconds, exact when the metadata reader      *)
(*                        delivers rationals, and otherwise with the       *)
(*                        components read, which fix the double (the       *)
(*                        source holds decimal degrees)                    *)
(*   distances            metres (the source holds kilometres)             *)
(*   speeds               metres per second, as exact fractions <<n, d>>   *)
(*   the written result   hundredths of a km/s (the source writes "%.2f")  *)
(***************************************************************************)
EXTENDS Integers, Sequences, FiniteSets, TLC

(***************************************************************************)
(* Program constants.                                                      *)
(***************************************************************************)
DefaultMaxStorageSize == 250
DefaultMaxImages == 42
DefaultMaxCaptureDuration == 480
DefaultCaptureInterval == 5
RetentionCap == 42
GPSInfo == 34853
DateTimeOriginal == 36867
BytesPerMB == 1048576

(***************************************************************************)
(* Bounds of the model.                                                    *)
(***************************************************************************)
\* Clock resolution: ticks per second (2: half-second readings).
TicksPerSec == 2
\* Largest image budget of the parameter and metadata sweeps.
MaxImages == 3
\* The retention sweep captures up to RetentionCap + MaxOver images.
MaxOver == 2
\* Largest time, in ticks, that may pass unobserved before one clock reading.
MaxJitter == 1

(***************************************************************************)
(* Small arithmetic helpers.                                               *)
(***************************************************************************)
Abs(x) == IF x < 0 THEN -x ELSE x

Min(a, b) == IF a <= b THEN a ELSE b

Max(a, b) == IF a >= b THEN a ELSE b

RECURSIVE Gcd(_, _)
Gcd(a, b) == IF b = 0 THEN a ELSE Gcd(b, a % b)

\* The fraction n/d (d # 0) in lowest terms with a positive denominator.
Frac(n, d) ==
    LET g == Gcd(Abs(n), Abs(d))
        s == IF d < 0 THEN -1 ELSE 1
    IN  <<(s * n) \div g, (s * d) \div g>>

FracAdd(p, q) == Frac(p[1] * q[2] + q[1] * p[2], p[2] * q[2])

FracMul(p, q) == Frac(p[1] * q[1], p[2] * q[2])

\* The sum of a sequence of fractions (halving keeps the evaluation shallow).
RECURSIVE FracSum(_)
FracSum(s) ==
    IF s = <<>> THEN <<0, 1>>
    ELSE IF Len(s) = 1 THEN s[1]
    ELSE LET h == Len(s) \div 2
         IN  FracAdd(FracSum(SubSeq(s, 1, h)), FracSum(SubSeq(s, h + 1, Len(s))))

\* The absent value (Python's None) of an extraction; also what an operator
\* that raises yields instead of a value.
None == <<>>

(***************************************************************************)
(* haversine_distance, in metres, of two points given in arc-seconds:      *)
(* round(1000 * haversine_distance(..)) as src/main.py computes it with    *)
(* radius 6378.137 + 400 km.                                               *)
(*                                                                         *)
(* Along a meridian (lon1 = lon2) and along the equator (lat1 = lat2 = 0)  *)
(* the formula of lines 143-147 is the arc radius * angle: ArcMetres, with *)
(* 32861.3355 mm to the arc-second (pi * 6778.137 km / 648000), for arcs   *)
(* up to 18 degrees.  Elsewhere the central angle depends on the points    *)
(* only through |lat2 - lat1|, |lat1 + lat2| and |lon2 - lon1|, and        *)
(* HaversineMetres lists the value for whole degrees up to 2 (one of 3).   *)
(* No value is defined outside these cases.  The coordinates are whole     *)
(* arc-seconds here; whether the distance the code computes is 0 exactly   *)
(* is ZeroDistance, below.                                                 *)
(***************************************************************************)
ArcMetres(arcsec) ==
    (arcsec * 32861 + (arcsec * 3355) \div 10000 + 500) \div 1000

HaversineMetres(dlat, slat, dlon) ==
    CASE <<dlat, slat, dlon>> = <<0, 0, 0>> -> 0
      [] <<dlat, slat, dlon>> = <<0, 0, 1>> -> 118301
      [] <<dlat, slat, dlon>> = <<0, 0, 2>> -> 236602
      [] <<dlat, slat, dlon>> = <<0, 2, 0>> -> 0
      [] <<dlat, slat, dlon>> = <<0, 2, 1>> -> 118283
      [] <<dlat, slat, dlon>> = <<0, 2, 2>> -> 236566
      [] <<dlat, slat, dlon>> = <<1, 1, 0>> -> 118301
      [] <<dlat, slat, dlon>> = <<1, 1, 1>> -> 167298
      [] <<dlat, slat, dlon>> = <<1, 1, 2>> -> 264518
      [] <<dlat, slat, dlon>> = <<1, 1, 3>> -> 374083
      [] <<dlat, slat, dlon>> = <<2, 0, 0>> -> 236602
      [] <<dlat, slat, dlon>> = <<2, 0, 1>> -> 264526
      [] <<dlat, slat, dlon>> = <<2, 0, 2>> -> 334597

haversine_distance(lat1, lon1, lat2, lon2) ==
    LET dlat == Abs(lat2 - lat1)
        dlon == Abs(lon2 - lon1)
        slat == Abs(lat1 + lat2)
        equator == lat1 = 0 /\ lat2 = 0
    IN  CASE dlon = 0 /\ dlat <= 64800 -> ArcMetres(dlat)
          [] dlon # 0 /\ equator /\ dlon <= 64800 -> ArcMetres(dlon)
          [] /\ dlon # 0 /\ ~equator
             /\ dlat % 3600 = 0 /\ slat % 3600 = 0 /\ dlon % 3600 = 0 ->
                 HaversineMetres(dlat \div 3600, slat \div 3600, dlon \div 3600)

(***************************************************************************)
(* The double of a coordinate.  Lines 95-96 compute d + m / 60 + s / 3600  *)
(* on the components as img._getexif() delivers them.  Pillow delivers     *)
(* IFDRational values, whose + and / are those of fractions.Fraction: the  *)
(* sum is exact, and math.radians (line 137) first takes the double        *)
(* nearest to it.  On plain numbers the sum is binary floating point, and  *)
(* two values of the same arc-seconds written as different <<d, m, s>>     *)
(* need not be the same double.  Line 137 multiplies the double by         *)
(* pi / 180 and line 204 compares the distance with 0 exactly.             *)
(* A double is held as <<mantissa, exponent>>: the mantissa is a           *)
(* natural number of 53 bits, least significant first, and the value is    *)
(* mantissa * 2^exponent; zero is <<<<>>, 0>>.  Every operation rounds to  *)
(* nearest, ties to even, as IEEE 754 does.  Intermediate results are      *)
(* handed on as operator arguments and ranges are halved, which keeps the  *)
(* evaluation shallow.  The components are non-negative whole numbers.     *)
(***************************************************************************)
\* F(v) and F(v, w) with the arguments evaluated before F is: the stages of
\* a computation then do not nest.
Eager(F(_), v) == CHOOSE r \in {F(x) : x \in {v}} : TRUE

Eager2(F(_, _), v, w) == CHOOSE r \in {F(x, y) : x \in {v}, y \in {w}} : TRUE

RECURSIVE Bits(_)
Bits(n) == IF n = 0 THEN <<>> ELSE <<n % 2>> \o Bits(n \div 2)

Bit(b, i) == IF i \in 1..Len(b) THEN b[i] ELSE 0

\* The position of the leading one, 0 for zero; b without its leading zeros.
TopBit(b) ==
    IF \A i \in 1..Len(b) : b[i] = 0 THEN 0
    ELSE CHOOSE i \in 1..Len(b) : b[i] = 1 /\ \A j \in (i + 1)..Len(b) : b[j] = 0

Trim(b) == SubSeq(b, 1, TopBit(b))

ShiftLeft(b, k) == [i \in 1..k |-> 0] \o b

Front(s) == SubSeq(s, 1, Len(s) - 1)

Last(s) == s[Len(s)]

\* The bits lo..hi of the number whose column k (weight 2^(k-1)) holds
\* cols[k], for a carry into column lo, followed by the carry out.
RECURSIVE CarryRange(_, _, _, _)
CarryHigh(cols, lo, hi, low) == Front(low) \o CarryRange(cols, lo, hi, Last(low))

CarryRange(cols, lo, hi, carry) ==
    IF lo = hi
    THEN <<(cols[lo] + carry) % 2, (cols[lo] + carry) \div 2>>
    ELSE CarryHigh(cols, (lo + hi) \div 2 + 1, hi,
                   CarryRange(cols, lo, (lo + hi) \div 2, carry))

AddBits(a, b) ==
    Trim(CarryRange([k \in 1..(Max(Len(a), Len(b)) + 1) |-> Bit(a, k) + Bit(b, k)],
                    1, Max(Len(a), Len(b)) + 1, 0))

MulBits(a, b) ==
    Trim(CarryRange([k \in 1..(Len(a) + Len(b) + 1) |->
                        Cardinality({i \in Max(1, k + 1 - Len(b))..Min(Len(a), k) :
                                        a[i] = 1 /\ b[k + 1 - i] = 1})],
                    1, Len(a) + Len(b) + 1, 0))

\* Long division of the bits lo..hi of b by the small divisor k, for a
\* remainder r of the bits above hi: the quotient bits in the order they
\* are produced, most significant first, followed by the remainder.
RECURSIVE DivRange(_, _, _, _, _)
DivLow(b, k, lo, hi, high) == Front(high) \o DivRange(b, k, lo, hi, Last(high))

DivRange(b, k, lo, hi, r) ==
    IF lo = hi
    THEN <<(2 * r + b[lo]) \div k, (2 * r + b[lo]) % k>>
    ELSE DivLow(b, k, lo, (lo + hi) \div 2,
                DivRange(b, k, (lo + hi) \div 2 + 1, hi, r))

\* The double nearest to b * 2^e (plus, when sticky, a positive amount below
\* one unit of b), b without leading zeros: the 53 leading bits, rounded up
\* when the dropped part is above half a unit, or is half and the kept part
\* is odd.
RoundUp(kept, e) ==
    IF Len(AddBits(kept, <<1>>)) = 54
    THEN <<SubSeq(AddBits(kept, <<1>>), 2, 54), e + 1>>
    ELSE <<SubSeq(AddBits(kept, <<1>>), 1, 53), e>>

RoundTrimmed(b, sticky, e) ==
    IF Len(b) = 0 THEN <<<<>>, 0>>
    ELSE IF Len(b) <= 53 THEN <<ShiftLeft(b, 53 - Len(b)), e - (53 - Len(b))>>
    ELSE LET drop == Len(b) - 53
             rest == sticky \/ \E i \in 1..(drop - 1) : b[i] = 1
         IN  IF b[drop] = 1 /\ (rest \/ b[drop + 1] = 1)
             THEN RoundUp(SubSeq(b, drop + 1, Len(b)), e + drop)
             ELSE <<SubSeq(b, drop + 1, Len(b)), e + drop>>

Round53(bits, sticky, e) ==
    LET Rounded(b) == RoundTrimmed(b, sticky, e) IN Eager(Rounded, Trim(bits))

\* float(n) and n / k of two naturals, k small.
DoubleOfInt(n) == Round53(Bits(n), FALSE, 0)

Reverse(b) == [i \in 1..Len(b) |-> b[Len(b) + 1 - i]] \o <<>>

RoundQuotient(qr, e) == Round53(Reverse(Front(qr)), Last(qr) # 0, e)

DoubleOfRatio(n, k) ==
    LET Quotient(b) == RoundQuotient(DivRange(b, k, 1, Len(b), 0), -70)
    IN  Eager(Quotient, ShiftLeft(Bits(n), 70))

AddDouble(x, y) ==
    IF x[1] = <<>> THEN y
    ELSE IF y[1] = <<>> THEN x
    ELSE Round53(AddBits(ShiftLeft(x[1], x[2] - Min(x[2], y[2])),
                         ShiftLeft(y[1], y[2] - Min(x[2], y[2]))),
                 FALSE, Min(x[2], y[2]))

MulDouble(x, y) ==
    IF x[1] = <<>> \/ y[1] = <<>> THEN <<<<>>, 0>>
    ELSE Round53(MulBits(x[1], y[1]), FALSE, x[2] + y[2])

\* math.pi / 180.0 = 5030569068109113 * 2^-58, the mantissa in 14-bit limbs.
DegToRad ==
    <<AddBits(AddBits(Bits(7481), ShiftLeft(Bits(2378), 14)),
              AddBits(ShiftLeft(Bits(13418), 28), ShiftLeft(Bits(1143), 42))),
      -58>>

\* Lines 95-96 on plain numbers: d + m / 60 + s / 3600 in doubles, left to
\* right, of non-negative whole components.
DoubleOfDms(t) ==
    Eager2(AddDouble,
           Eager2(AddDouble, DoubleOfInt(t[1]), DoubleOfRatio(t[2], 60)),
           DoubleOfRatio(t[3], 3600))

\* Line 137: math.radians(x), x * (pi / 180).
Radians(x) == MulDouble(x, DegToRad)

\* The doubles x and y of two coordinates are the same double in radians.
SameRadians(x, y) == IF x = y THEN TRUE ELSE Radians(x) = Radians(y)

(***************************************************************************)
(* A coordinate as extraction returns it is <<arc-seconds, form>>: the     *)
(* signed whole arc-seconds of the value, and what fixes its double.  An   *)
(* exact value (a Fraction) has the form <<>>: it is its arc-seconds over  *)
(* 3600.  A float has for form the components <<d, m, s>> it was summed    *)
(* from.                                                                   *)
(***************************************************************************)
\* Line 137: the double math.radians starts from, without its sign.  Of a
\* Fraction it is numerator / denominator, the double nearest to the value.
DegreesDouble(c) ==
    IF c[2] = <<>> THEN DoubleOfRatio(Abs(c[1]), 3600) ELSE DoubleOfDms(c[2])

\* Lines 137-139: math.radians gives the same double for both, so that
\* their difference is 0.  Different arc-seconds are different doubles; the
\* sign goes with the arc-seconds.
SameDouble(c1, c2) ==
    IF c1[1] # c2[1] THEN FALSE
    ELSE IF c1[2] = c2[2] THEN TRUE
    ELSE Eager2(SameRadians, DegreesDouble(c1), DegreesDouble(c2))

\* Line 204: haversine_distance(lat1, lon1, lat2, lon2) == 0.  The formula
\* of lines 143-147 gives 0 exactly when dlat and dlon are both 0.
ZeroDistance(lat1, lon1, lat2, lon2) ==
    SameDouble(lat1, lat2) /\ SameDouble(lon1, lon2)

(***************************************************************************)
(* calculate_speed: |distance / time_in_seconds| as an exact fraction, or  *)
(* None where the float division raises ZeroDivisionError (zero duration). *)
(***************************************************************************)
calculate_speed(distance, time_in_seconds) ==
    IF time_in_seconds = 0
    THEN None
    ELSE LET speed == Frac(distance, time_in_seconds)
         IN  <<Abs(speed[1]), speed[2]>>

(***************************************************************************)
(* datetime.strptime(timestamp_str, '%Y:%m:%d %H:%M:%S').  The field value *)
(* is held as its six numeric fields <<Y, M, D, h, m, s>>; parsing checks  *)
(* the field count and every field's range as strptime does, and yields    *)
(* the instant in whole seconds since 2000-01-01 00:00:00.                 *)
(***************************************************************************)
IsLeap(y) == (y % 4 = 0 /\ y % 100 # 0) \/ y % 400 = 0

DaysInMonth(y, m) ==
    IF m = 2 THEN (IF IsLeap(y) THEN 29 ELSE 28)
    ELSE IF m \in {4, 6, 9, 11} THEN 30 ELSE 31

\* Days from 2000-01-01 to the civil date y-m-d (proleptic Gregorian).
DaysFromCivil(y, m, d) ==
    LET yy  == IF m <= 2 THEN y - 1 ELSE y
        era == yy \div 400
        yoe == yy - era * 400
        mp  == IF m > 2 THEN m - 3 ELSE m + 9
        doy == (153 * mp + 2) \div 5 + d - 1
        doe == yoe * 365 + yoe \div 4 - yoe \div 100 + doy
    IN  era * 146097 + doe - 730425

ParsesAsDateTime(s) ==
    /\ Len(s) = 6
    /\ s[1] \in 1..9999
    /\ s[2] \in 1..12
    /\ s[3] \in 1..DaysInMonth(s[1], s[2])
    /\ s[4] \in 0..23
    /\ s[5] \in 0..59
    /\ s[6] \in 0..59

strptime(s) ==
    DaysFromCivil(s[1], s[2], s[3]) * 86400 + s[4] * 3600 + s[5] * 60 + s[6]

(***************************************************************************)
(* extract_coordinates_and_timestamp applied to the content of one file.   *)
(* A file is [size, has_exif, rational, exif]: has_exif is FALSE when      *)
(* Image.open or _getexif() gives nothing to index (the `in` test then     *)
(* raises and the broad except returns None); exif maps tag numbers to     *)
(* values.  A GPS block maps the keys 1..4 to reference letters and        *)
(* <<deg, min, sec>> values; a missing key or component raises inside the  *)
(* try.  rational is TRUE when the components are delivered as Pillow's    *)
(* IFDRational (exact arithmetic) and FALSE when they are delivered as     *)
(* plain numbers (binary floating point).                                  *)
(***************************************************************************)
\* Lines 95-96 index the components [0], [1] and [2] of a coordinate value;
\* further components are not read.
IsTriple(t) == Len(t) >= 3

Dms(t) == t[1] * 3600 + t[2] * 60 + t[3]

\* Lines 95-101: the value of the components read, negated for a southern
\* or western reference.
Coordinate(t, negated, rational) ==
    <<IF negated THEN -Dms(t) ELSE Dms(t),
      IF rational THEN <<>> ELSE SubSeq(t, 1, 3)>>

ExtractFromFile(f) ==
    IF ~f.has_exif
    THEN None
    ELSE LET exif_data == f.exif IN
         IF GPSInfo \in DOMAIN exif_data /\ DateTimeOriginal \in DOMAIN exif_data
         THEN LET gps_info == exif_data[GPSInfo]
                  timestamp_str == exif_data[DateTimeOriginal]
              IN  IF \/ ~(1..4 \subseteq DOMAIN gps_info)
                     \/ ~IsTriple(gps_info[2])
                     \/ ~IsTriple(gps_info[4])
                     \/ ~ParsesAsDateTime(timestamp_str)
                  THEN None
                  ELSE LET latitude  == Coordinate(gps_info[2], gps_info[3] = "S",
                                                   f.rational)
                           longitude == Coordinate(gps_info[4], gps_info[1] = "W",
                                                   f.rational)
                       IN  <<latitude, longitude, strptime(timestamp_str)>>
         ELSE None

(***************************************************************************)
(* The capture device and its driver, external to the program.  A scene    *)
(* fixes what the device writes into the file captured at a clock reading: *)
(*   "orbit"  every file carries a GPS block and a timestamp; the platform *)
(*            is on the equator and moves one degree of longitude every    *)
(*            DefaultCaptureInterval seconds, back and forth;              *)
(*   "any"    the file carries any of the metadata of AnyExif, where one   *)
(*            longitude is written in more than one way: two degrees as    *)
(*            the rationals <<2, 0, 0>> and <<1, 55, 300>>, which are the  *)
(*            same value, and one degree as the rationals <<1, 0, 0>> and  *)
(*            as the plain numbers <<0, 60, 0>>, which are the same        *)
(*            double;                                                      *)
(*   "blank"  the device has no position source: no file carries metadata  *)
(*            that _getexif() can return.                                  *)
(* Clock reading 0 is 2023-05-01 12:00:00.                                 *)
(***************************************************************************)
ImageSize == BytesPerMB

GpsBlock(latref, lat, lonref, lon) == <<latref, lat, lonref, lon>>

Exif(gps, dto) == (GPSInfo :> gps) @@ (DateTimeOriginal :> dto)

WallClock(sec) == <<2023, 5, 1, 12 + sec \div 3600, (sec \div 60) % 60, sec % 60>>

OrbitFile(sec) ==
    [size |-> ImageSize, has_exif |-> TRUE, rational |-> TRUE,
     exif |-> Exif(GpsBlock("N", <<0, 0, 0>>, "E",
                            <<(sec \div DefaultCaptureInterval) % 2, 0, 0>>),
                   WallClock(sec))]

AnyExif ==
    { [has_exif |-> FALSE, rational |-> TRUE, exif |-> <<>>],
      [has_exif |-> TRUE, rational |-> TRUE,
       exif |-> (DateTimeOriginal :> WallClock(0))],
      [has_exif |-> TRUE, rational |-> TRUE,
       exif |-> (GPSInfo :> GpsBlock("N", <<0, 0, 0>>, "E", <<0, 0, 0>>))],
      [has_exif |-> TRUE, rational |-> TRUE,
       exif |-> Exif(GpsBlock("N", <<0, 0, 0>>, "E", <<0, 0, 0>>),
                     <<2023, 13, 1, 12, 0, 0>>)],
      [has_exif |-> TRUE, rational |-> TRUE,
       exif |-> Exif(GpsBlock("N", <<0, 0, 0>>, "E", <<1, 0, 0>>),
                     <<2023, 5, 1, 12, 0, 60>>)],
      [has_exif |-> TRUE, rational |-> TRUE,
       exif |-> Exif(<<"N", <<0, 0, 0>>, "E">>, WallClock(0))],
      [has_exif |-> TRUE, rational |-> TRUE,
       exif |-> Exif(GpsBlock("N", <<0, 0, 0, 0>>, "E", <<1, 0, 0>>), WallClock(5))],
      [has_exif |-> TRUE, rational |-> TRUE,
       exif |-> Exif(GpsBlock("N", <<0, 0, 0>>, "E", <<0, 0, 0>>), WallClock(0))],
      [has_exif |-> TRUE, rational |-> TRUE,
       exif |-> Exif(GpsBlock("N", <<0, 0, 0>>, "E", <<1, 0, 0>>), WallClock(10))],
      [has_exif |-> TRUE, rational |-> TRUE,
       exif |-> Exif(GpsBlock("N", <<0, 0, 0>>, "E", <<1, 0, 0>>), WallClock(0))],
      [has_exif |-> TRUE, rational |-> TRUE,
       exif |-> Exif(GpsBlock("S", <<1, 0, 0>>, "W", <<1, 0, 0>>), WallClock(0))],
      [has_exif |-> TRUE, rational |-> TRUE,
       exif |-> Exif(GpsBlock("N", <<0, 0, 0>>, "E", <<2, 0, 0>>), WallClock(0))],
      [has_exif |-> TRUE, rational |-> TRUE,
       exif |-> Exif(GpsBlock("N", <<0, 0, 0>>, "E", <<1, 55, 300>>), WallClock(5))],
      [has_exif |-> TRUE, rational |-> FALSE,
       exif |-> Exif(GpsBlock("N", <<0, 0, 0>>, "E", <<0, 60, 0>>), WallClock(5))] }

BlankFile ==
    [size |-> ImageSize, has_exif |-> FALSE, rational |-> TRUE, exif |-> <<>>]

DeviceFiles(scene, sec) ==
    IF scene = "orbit"
    THEN {OrbitFile(sec)}
    ELSE IF scene = "blank"
    THEN {BlankFile}
    ELSE {[size |-> ImageSize, has_exif |-> e.has_exif, rational |-> e.rational,
           exif |-> e.exif] : e \in AnyExif}

(***************************************************************************)
(* The arguments of capture_images and the environment of one run.         *)
(* max_storage_size is in MB, max_capture_duration in seconds and          *)
(* capture_interval in ticks (so that sub-second intervals are inputs).    *)
(* main passes the defaults of line 9; the sweeps vary them as the         *)
(* configuration surface of capture_images allows.  Of the environment,    *)
(* jitter bounds the time that passes unobserved before a clock reading    *)
(* and takes is the time, in ticks, one camera.capture call lasts.         *)
(***************************************************************************)
Arg(storage, count, duration, interval) ==
    [max_storage_size |-> storage, max_images |-> count,
     max_capture_duration |-> duration, capture_interval |-> interval]

\* Small budgets of every kind, every interval, a jittering clock.
ParamSweep ==
    { [arg |-> Arg(st, n, d, iv), scene |-> "orbit", jitter |-> j, takes |-> c] :
        st \in {0, 2, DefaultMaxStorageSize}, n \in 0..MaxImages,
        d \in {0, 1, DefaultMaxCaptureDuration},
        iv \in {0, 1, TicksPerSec, DefaultCaptureInterval * TicksPerSec},
        j \in 0..MaxJitter, c \in {0, TicksPerSec} }

\* main's defaults with a small image budget and every kind of metadata.
MetaSweep ==
    { [arg |-> Arg(DefaultMaxStorageSize, MaxImages, DefaultMaxCaptureDuration,
                   DefaultCaptureInterval * TicksPerSec),
       scene |-> "any", jitter |-> 0, takes |-> 0] }

\* main's defaults with image budgets around the retention cap, over a
\* moving platform and with a device that writes no metadata.
RetentionSweep ==
    { [arg |-> Arg(DefaultMaxStorageSize, n, DefaultMaxCaptureDuration,
                   DefaultCaptureInterval * TicksPerSec),
       scene |-> sc, jitter |-> 0, takes |-> 0] :
        n \in (RetentionCap - 1)..(RetentionCap + MaxOver), sc \in {"orbit", "blank"} }

Runs == ParamSweep \cup MetaSweep \cup RetentionSweep

(***************************************************************************)
(* State.                                                                  *)
(***************************************************************************)
VARIABLES
    run,                 \* the arguments, scene, clock jitter and capture time of this run
    pc,                  \* the statement the program is at
    now,                 \* the clock, in ticks
    camera,              \* "unbound", "open" or "closed"
    closes,              \* number of camera.close() calls made
    files,               \* the image directory: path -> file
    images,              \* list of captured paths
    timestamps,          \* list of capture instants
    total_storage_size,  \* accumulated size, in bytes
    start_time,          \* clock reading of line 36
    sleeps,              \* number of sleep(capture_interval) calls made
    result,              \* what capture_images returns: "pending", "lists", "None"
    exc,                 \* the exception that escaped, or "none"
    i,                   \* index of the pair loop (1-based: pair images[i], images[i+1])
    speed_data,          \* the samples
    extract_calls,       \* number of extract_coordinates_and_timestamp calls made
    sink,                \* the values written to result.txt, in order
    removed              \* the paths os.remove deleted, in order

vars == <<run, pc, now, camera, closes, files, images, timestamps,
          total_storage_size, start_time, sleeps, result, exc, i, speed_data,
          extract_calls, sink, removed>>

captureVars == <<images, timestamps, total_storage_size, start_time, sleeps>>

mainVars == <<i, speed_data, extract_calls, sink, removed>>

arg == run.arg

\* Mutant of ImageFile: the name keeps the minute, not the second.
ImageFileMinute(timestamp) == timestamp \div (TicksPerSec * 60)

\* The path of line 41-42: the capture instant at one-second resolution.
ImageFile(timestamp) == timestamp \div TicksPerSec

Init ==
    /\ run \in Runs
    /\ pc = "acquire"
    /\ now = 0
    /\ camera = "unbound"
    /\ closes = 0
    /\ files = <<>>
    /\ images = <<>>
    /\ timestamps = <<>>
    /\ total_storage_size = 0
    /\ start_time = 0
    /\ sleeps = 0
    /\ result = "pending"
    /\ exc = "none"
    /\ i = 1
    /\ speed_data = <<>>
    /\ extract_calls = 0
    /\ sink = <<>>
    /\ removed = <<>>

(***************************************************************************)
(* capture_images.                                                         *)
(***************************************************************************)
\* Line 26: camera = PiCamera().
Acquire ==
    /\ pc = "acquire"
    /\ camera' = "open"
    /\ pc' = "configure"
    /\ UNCHANGED <<run, now, closes, files, result, exc, captureVars, mainVars>>

\* Line 26 raises: camera stays unbound, control goes to the except clause.
AcquireFail ==
    /\ pc = "acquire"
    /\ pc' = "except"
    /\ UNCHANGED <<run, now, camera, closes, files, result, exc, captureVars, mainVars>>

\* Lines 27-30: the four settings.
Configure ==
    /\ pc = "configure"
    /\ pc' = "start"
    /\ UNCHANGED <<run, now, camera, closes, files, result, exc, captureVars, mainVars>>

ConfigureFail ==
    /\ pc = "configure"
    /\ pc' = "except"
    /\ UNCHANGED <<run, now, camera, closes, files, result, exc, captureVars, mainVars>>

\* Lines 33-36: the lists, the size counter and the session start.
StartTimer ==
    /\ pc = "start"
    /\ \E j \in 0..run.jitter :
         /\ now' = now + j
         /\ start_time' = now + j
    /\ images' = <<>>
    /\ timestamps' = <<>>
    /\ total_storage_size' = 0
    /\ pc' = "while"
    /\ UNCHANGED <<run, camera, closes, files, result, exc, sleeps, mainVars>>

\* Mutant of LoopCondition: the budgets are tested only after a capture.
LoopConditionDoWhile ==
    \/ Len(images) = 0
    \/ /\ total_storage_size < arg.max_storage_size * BytesPerMB
       /\ Len(images) < arg.max_images

\* Mutant of LoopCondition: the image budget tested with <=.
LoopConditionOffByOne ==
    /\ total_storage_size < arg.max_storage_size * BytesPerMB
    /\ Len(images) <= arg.max_images

\* Line 38: the loop condition.
LoopCondition ==
    /\ total_storage_size < arg.max_storage_size * BytesPerMB
    /\ Len(images) < arg.max_images

LoopEnter ==
    /\ pc = "while"
    /\ LoopCondition
    /\ pc' = "capture"
    /\ UNCHANGED <<run, now, camera, closes, files, result, exc, captureVars, mainVars>>

LoopExit ==
    /\ pc = "while"
    /\ ~LoopCondition
    /\ pc' = "return"
    /\ UNCHANGED <<run, now, camera, closes, files, result, exc, captureVars, mainVars>>

\* Lines 40-50: read the clock, name the file, capture (which lasts
\* run.takes ticks), append to both lists.
Capture ==
    /\ pc = "capture"
    /\ \E j \in 0..run.jitter :
         LET timestamp  == now + j
             image_file == ImageFile(timestamp)
         IN  /\ now' = timestamp + run.takes
             /\ \E f \in DeviceFiles(run.scene, image_file) :
                  files' = (image_file :> f) @@ files
             /\ images' = Append(images, image_file)
             /\ timestamps' = Append(timestamps, timestamp)
    /\ pc' = "getsize"
    /\ UNCHANGED <<run, camera, closes, result, exc, total_storage_size,
                   start_time, sleeps, mainVars>>

\* Line 45 raises.
CaptureFail ==
    /\ pc = "capture"
    /\ \E j \in 0..run.jitter : now' = now + j
    /\ pc' = "except"
    /\ UNCHANGED <<run, camera, closes, files, result, exc, captureVars, mainVars>>

\* Line 53: add the size of the file just written.
GetSize ==
    /\ pc = "getsize"
    /\ total_storage_size' = total_storage_size + files[Last(images)].size
    /\ pc' = "duration"
    /\ UNCHANGED <<run, now, camera, closes, files, result, exc, images,
                   timestamps, start_time, sleeps, mainVars>>

GetSizeFail ==
    /\ pc = "getsize"
    /\ pc' = "except"
    /\ UNCHANGED <<run, now, camera, closes, files, result, exc, captureVars, mainVars>>

\* Mutant of DurationReached: the budget is taken one second too long.
DurationReachedLate ==
    Last(timestamps) - start_time > (arg.max_capture_duration + 1) * TicksPerSec

\* Line 56: the elapsed time of the capture just made against the budget.
DurationReached ==
    Last(timestamps) - start_time > arg.max_capture_duration * TicksPerSec

\* Mutant of DurationBreak: the pause is taken before the break.
DurationBreakAfterSleep ==
    /\ pc = "duration"
    /\ Last(timestamps) - start_time > arg.max_capture_duration * TicksPerSec
    /\ now' = now + arg.capture_interval
    /\ sleeps' = sleeps + 1
    /\ pc' = "return"
    /\ UNCHANGED <<run, camera, closes, files, result, exc, images, timestamps,
                   total_storage_size, start_time, mainVars>>

\* Mutant of DurationBreak: continue instead of break.
DurationContinue ==
    /\ pc = "duration"
    /\ Last(timestamps) - start_time > arg.max_capture_duration * TicksPerSec
    /\ pc' = "while"
    /\ UNCHANGED <<run, now, camera, closes, files, result, exc, captureVars, mainVars>>

\* Lines 56-57: break.
DurationBreak ==
    /\ pc = "duration"
    /\ DurationReached
    /\ pc' = "return"
    /\ UNCHANGED <<run, now, camera, closes, files, result, exc, captureVars, mainVars>>

\* Mutant of Sleep: no pause when the loop test is about to fail.
SleepOnlyIfContinuing ==
    /\ pc = "duration"
    /\ ~DurationReached
    /\ IF LoopCondition
       THEN now' = now + arg.capture_interval /\ sleeps' = sleeps + 1
       ELSE UNCHANGED <<now, sleeps>>
    /\ pc' = "while"
    /\ UNCHANGED <<run, camera, closes, files, result, exc, images, timestamps,
                   total_storage_size, start_time, mainVars>>

\* Lines 56-59: no break; sleep(capture_interval), then back to line 38.
Sleep ==
    /\ pc = "duration"
    /\ ~DurationReached
    /\ now' = now + arg.capture_interval
    /\ sleeps' = sleeps + 1
    /\ pc' = "while"
    /\ UNCHANGED <<run, camera, closes, files, result, exc, images, timestamps,
                   total_storage_size, start_time, mainVars>>

\* Line 61: return images, timestamps (held while the finally clause runs).
Return ==
    /\ pc = "return"
    /\ result' = "lists"
    /\ pc' = "finally"
    /\ UNCHANGED <<run, now, camera, closes, files, exc, captureVars, mainVars>>

\* Mutant of Except: the handler returns at once, as if the close were the
\* last statement of the try block instead of a finally clause.
ExceptWithoutFinally ==
    /\ pc = "except"
    /\ result' = "None"
    /\ pc' = "main_if"
    /\ UNCHANGED <<run, now, camera, closes, files, exc, captureVars, mainVars>>

\* Lines 63-65: return None, None (held while the finally clause runs).
Except ==
    /\ pc = "except"
    /\ result' = "None"
    /\ pc' = "finally"
    /\ UNCHANGED <<run, now, camera, closes, files, exc, captureVars, mainVars>>

\* Lines 67-68 with camera bound: close, then hand the held value to main.
FinallyClose ==
    /\ pc = "finally"
    /\ camera # "unbound"
    /\ camera' = "closed"
    /\ closes' = closes + 1
    /\ pc' = "main_if"
    /\ UNCHANGED <<run, now, files, result, exc, captureVars, mainVars>>

\* Lines 67-68 with camera unbound: the name lookup raises, the held return
\* value is dropped and the exception leaves capture_images and main.
FinallyUnbound ==
    /\ pc = "finally"
    /\ camera = "unbound"
    /\ exc' = "UnboundLocalError"
    /\ pc' = "crashed"
    /\ UNCHANGED <<run, now, camera, closes, files, result, captureVars, mainVars>>

(***************************************************************************)
(* main.                                                                   *)
(***************************************************************************)
\* Mutant of MainProcess: the pair loop starts one index late.
MainProcessFromTwo ==
    /\ pc = "main_if"
    /\ result = "lists" /\ images # <<>> /\ timestamps # <<>>
    /\ speed_data' = <<>>
    /\ i' = IF Len(images) >= 2 THEN 2 ELSE 1
    /\ pc' = "for"
    /\ UNCHANGED <<run, now, camera, closes, files, result, exc, captureVars,
                   extract_calls, sink, removed>>

\* Line 190 true: capture_images returned two non-empty lists.
MainProcess ==
    /\ pc = "main_if"
    /\ result = "lists" /\ images # <<>> /\ timestamps # <<>>
    /\ speed_data' = <<>>
    /\ i' = 1
    /\ pc' = "for"
    /\ UNCHANGED <<run, now, camera, closes, files, result, exc, captureVars,
                   extract_calls, sink, removed>>

\* Line 190 false: None or an empty list; main ends.
MainSkip ==
    /\ pc = "main_if"
    /\ ~(result = "lists" /\ images # <<>> /\ timestamps # <<>>)
    /\ pc' = "done"
    /\ UNCHANGED <<run, now, camera, closes, files, result, exc, captureVars, mainVars>>

\* Lines 83-116 on a path of the image directory.
extract_coordinates_and_timestamp(image_path) ==
    IF image_path \in DOMAIN files THEN ExtractFromFile(files[image_path]) ELSE None

\* Mutant of Degenerate: the zero-distance test is missing.
DegenerateWithoutDistance(image1, image2, data1, data2) ==
    \/ image1 = image2
    \/ data2[3] - data1[3] = 0

\* Mutant of Degenerate: the zero-duration test is missing.
DegenerateWithoutTime(image1, image2, data1, data2) ==
    \/ image1 = image2
    \/ ZeroDistance(data1[1], data1[2], data2[1], data2[2])

\* Lines 203-205: the pair is skipped.
Degenerate(image1, image2, data1, data2) ==
    \/ image1 = image2
    \/ ZeroDistance(data1[1], data1[2], data2[1], data2[2])
    \/ data2[3] - data1[3] = 0

\* Lines 198-206: no sample for this pair (an extraction returned None, or
\* the pair is degenerate).
Skipped(image1, image2, data1, data2) ==
    IF data1 = None \/ data2 = None
    THEN TRUE
    ELSE Degenerate(image1, image2, data1, data2)

\* Lines 208-218: the entry [image, image, distance, seconds, speed] of a pair.
Entry(image1, image2, data1, data2) ==
    LET distance        == haversine_distance(data1[1][1], data1[2][1],
                                              data2[1][1], data2[2][1])
        time_difference == data2[3] - data1[3]
        speed           == calculate_speed(distance, time_difference)
    IN  <<image1, image2, distance, time_difference, speed>>

\* Mutant of PairSkip: a pair without a sample ends the pair loop.
PairSkipBreaks ==
    /\ pc = "for"
    /\ i <= Len(images) - 1
    /\ LET data1 == extract_coordinates_and_timestamp(images[i])
           data2 == extract_coordinates_and_timestamp(images[i + 1])
       IN  Skipped(images[i], images[i + 1], data1, data2)
    /\ extract_calls' = extract_calls + 2
    /\ i' = Len(images)
    /\ UNCHANGED <<run, pc, now, camera, closes, files, result, exc, captureVars,
                   speed_data, sink, removed>>

\* Lines 193-198, 206: one iteration of the pair loop that appends nothing,
\* because an extraction returned None or the pair is degenerate.
PairSkip ==
    /\ pc = "for"
    /\ i <= Len(images) - 1
    /\ LET data1 == extract_coordinates_and_timestamp(images[i])
           data2 == extract_coordinates_and_timestamp(images[i + 1])
       IN  Skipped(images[i], images[i + 1], data1, data2)
    /\ extract_calls' = extract_calls + 2
    /\ i' = i + 1
    /\ UNCHANGED <<run, pc, now, camera, closes, files, result, exc, captureVars,
                   speed_data, sink, removed>>

\* Lines 193-219: one iteration of the pair loop that computes a sample.  A
\* raise of calculate_speed leaves main.
PairSample ==
    /\ pc = "for"
    /\ i <= Len(images) - 1
    /\ LET data1 == extract_coordinates_and_timestamp(images[i])
           data2 == extract_coordinates_and_timestamp(images[i + 1])
       IN  /\ ~Skipped(images[i], images[i + 1], data1, data2)
           /\ LET entry == Entry(images[i], images[i + 1], data1, data2)
              IN  IF entry[5] = None
                  THEN /\ exc' = "ZeroDivisionError"
                       /\ pc' = "crashed"
                       /\ UNCHANGED <<speed_data, i>>
                  ELSE /\ speed_data' = Append(speed_data, entry)
                       /\ i' = i + 1
                       /\ UNCHANGED <<exc, pc>>
    /\ extract_calls' = extract_calls + 2
    /\ UNCHANGED <<run, now, camera, closes, files, result, captureVars, sink, removed>>

\* Line 193: the range is exhausted.
ForExit ==
    /\ pc = "for"
    /\ i > Len(images) - 1
    /\ pc' = "average"
    /\ UNCHANGED <<run, now, camera, closes, files, result, exc, captureVars, mainVars>>

\* Mutant of AverageEmpty: an empty sample set averages to 0 and is written.
AverageEmptyWritesZero ==
    /\ pc = "average"
    /\ Len(speed_data) = 0
    /\ sink' = Append(sink, 0)
    /\ pc' = "cleanup"
    /\ UNCHANGED <<run, now, camera, closes, files, result, exc, captureVars,
                   i, speed_data, extract_calls, removed>>

\* Mutant of AverageEmpty: no sample, nothing written, cleanup still runs.
AverageEmptyThenCleanup ==
    /\ pc = "average"
    /\ Len(speed_data) = 0
    /\ pc' = "cleanup"
    /\ UNCHANGED <<run, now, camera, closes, files, result, exc, captureVars, mainVars>>

\* Line 222 with no sample: sum(...) / 0 raises and leaves main.
AverageEmpty ==
    /\ pc = "average"
    /\ Len(speed_data) = 0
    /\ exc' = "ZeroDivisionError"
    /\ pc' = "crashed"
    /\ UNCHANGED <<run, now, camera, closes, files, result, captureVars, mainVars>>

(***************************************************************************)
(* A sample holds its distance in whole metres, where the code holds a     *)
(* float: the distance the code computed is within half a metre of it.     *)
(* SpeedWithin is the sample's speed with the distance taken half a metre  *)
(* lower (side = -1) or higher (side = 1), and never below 0; what the     *)
(* code averages and writes lies between the two sides.                    *)
(***************************************************************************)
SpeedWithin(entry, side) ==
    LET speed == FracAdd(entry[5], Frac(side, 2 * Abs(entry[4])))
    IN  IF speed[1] < 0 THEN <<0, 1>> ELSE speed

\* Line 222: the mean of the samples' speeds, in m/s.
avg_speed(side) ==
    FracMul(FracSum([k \in 1..Len(speed_data) |-> SpeedWithin(speed_data[k], side)]),
            <<1, Len(speed_data)>>)

\* Mutant of error_corrected_average_speed: the correction is not applied.
UncorrectedAverage(side) == avg_speed(side)

\* Lines 225-226: the mean times 1 + 0.05.
error_corrected_average_speed(side) == FracMul(avg_speed(side), <<21, 20>>)

(***************************************************************************)
(* Line 179: f"{avg_speed:.2f}" of a speed in km/s, as the number of       *)
(* hundredths written.  The speed is q[1]/q[2] m/s, q[1] / (10 * q[2])     *)
(* hundredths of a km/s.  The format rounds the double to the nearest      *)
(* hundredth; where the speed is exactly half-way between two hundredths,  *)
(* m/200 km/s with m odd, the double nearest to it decides: it lies below  *)
(* or above m/200 as the remainder of m * 2^s by 200 is below or above     *)
(* 100 (s places the quotient in 2^52..2^53), and when the double is       *)
(* m/200 itself the even hundredth is written.                             *)
(***************************************************************************)
RECURSIVE Pow2Mod(_, _)
Pow2Mod(s, m) == IF s = 0 THEN 1 % m ELSE (2 * Pow2Mod(s - 1, m)) % m

RECURSIVE ExponentUp(_, _, _)
ExponentUp(m, p, e) == IF 2 * p <= m THEN ExponentUp(m, 2 * p, e + 1) ELSE e

RECURSIVE ExponentDown(_, _)
ExponentDown(m, e) == IF m < 200 THEN ExponentDown(2 * m, e - 1) ELSE e

\* The binary exponent of m/200 (m > 0): the e with 2^e <= m/200 < 2^(e+1).
BinaryExponent(m) ==
    IF m >= 200 THEN ExponentUp(m, 200, 0) ELSE ExponentDown(m, 0)

\* h + 1/2 hundredths is written as h + 1 (and not as h).
TieRoundsUp(h) ==
    LET m == 2 * h + 1
        r == ((m % 200) * Pow2Mod(52 - BinaryExponent(m), 200)) % 200
    IN  IF r = 0 THEN h % 2 = 1 ELSE r > 100

Format2f(q) ==
    LET h     == q[1] \div (10 * q[2])
        twice == (2 * q[1]) % (20 * q[2])
    IN  IF twice < 10 * q[2] THEN h
        ELSE IF twice > 10 * q[2] THEN h + 1
        ELSE IF TieRoundsUp(h) THEN h + 1 ELSE h

\* Lines 222-231: average, correct, print and write result.txt.  The value
\* written is the two-decimal form of a corrected mean between the two
\* sides of the samples' distances.
AverageLog ==
    /\ pc = "average"
    /\ Len(speed_data) # 0
    /\ \E written \in Format2f(error_corrected_average_speed(-1))
                        ..Format2f(error_corrected_average_speed(1)) :
         sink' = Append(sink, written)
    /\ pc' = "cleanup"
    /\ UNCHANGED <<run, now, camera, closes, files, result, exc, captureVars,
                   i, speed_data, extract_calls, removed>>

\* Mutant of CleanupRemove: images.pop() removes the newest image.
CleanupRemoveNewest ==
    /\ pc = "cleanup"
    /\ Len(images) > RetentionCap
    /\ images' = SubSeq(images, 1, Len(images) - 1)
    /\ IF Last(images) \in DOMAIN files
       THEN /\ files' = [p \in DOMAIN files \ {Last(images)} |-> files[p]]
            /\ removed' = Append(removed, Last(images))
            /\ UNCHANGED <<pc, exc>>
       ELSE /\ exc' = "FileNotFoundError"
            /\ pc' = "crashed"
            /\ UNCHANGED <<files, removed>>
    /\ UNCHANGED <<run, now, camera, closes, result, timestamps,
                   total_storage_size, start_time, sleeps, i, speed_data,
                   extract_calls, sink>>

\* Lines 234-235: one iteration of the cleanup loop.  os.remove of a path
\* that is no longer in the directory raises after the pop.
CleanupRemove ==
    /\ pc = "cleanup"
    /\ Len(images) > RetentionCap
    /\ images' = Tail(images)
    /\ IF Head(images) \in DOMAIN files
       THEN /\ files' = [p \in DOMAIN files \ {Head(images)} |-> files[p]]
            /\ removed' = Append(removed, Head(images))
            /\ UNCHANGED <<pc, exc>>
       ELSE /\ exc' = "FileNotFoundError"
            /\ pc' = "crashed"
            /\ UNCHANGED <<files, removed>>
    /\ UNCHANGED <<run, now, camera, closes, result, timestamps,
                   total_storage_size, start_time, sleeps, i, speed_data,
                   extract_calls, sink>>

\* Line 234 false: main ends.
CleanupDone ==
    /\ pc = "cleanup"
    /\ Len(images) <= RetentionCap
    /\ pc' = "done"
    /\ UNCHANGED <<run, now, camera, closes, files, result, exc, captureVars, mainVars>>

Next ==
    \/ Acquire \/ AcquireFail \/ Configure \/ ConfigureFail \/ StartTimer
    \/ LoopEnter \/ LoopExit \/ Capture \/ CaptureFail \/ GetSize \/ GetSizeFail
    \/ DurationBreak \/ Sleep \/ Return \/ Except \/ FinallyClose \/ FinallyUnbound
    \/ MainProcess \/ MainSkip \/ PairSkip \/ PairSample \/ ForExit
    \/ AverageEmpty \/ AverageLog \/ CleanupRemove \/ CleanupDone

Spec == Init /\ [][Next]_vars

(***************************************************************************)
(* Properties.                                                             *)
(***************************************************************************)
\* The statements of capture_images; at any other pc control is with main.
InCapture ==
    pc \in {"acquire", "configure", "start", "while", "capture", "getsize",
            "duration", "return", "except", "finally"}

\* capture_images handed control back, by a return or by an escaping exception.
HandedBack == ~InCapture

\* The paths as captured, in capture order (images itself shrinks in cleanup).
Captured == [k \in 1..Len(timestamps) |-> ImageFile(timestamps[k])]

\* The storage budget was not reached by the captures made so far.
StorageLeft == total_storage_size < arg.max_storage_size * BytesPerMB

\* capture_images is returning its lists (line 61 was reached).
Returning == pc = "finally" /\ result = "lists"

\* C1: whenever the device was acquired, it is released exactly once before
\* capture_images hands control back, on every exit path (budget stops and
\* failures after acquisition); it is not released earlier, and no capture
\* is issued after the release.
C1_ReleasedExactlyOnce ==
    /\ closes <= 1
    /\ (HandedBack /\ camera # "unbound") => (camera = "closed" /\ closes = 1)
    /\ (InCapture /\ camera # "unbound") => (camera = "open" /\ closes = 0)
    /\ pc = "capture" => camera = "open"

\* C1 witness: a capture failed after an earlier capture succeeded, and
\* control is back in main with the device closed once.
C1_Witness ==
    /\ pc = "main_if" /\ result = "None" /\ Len(images) >= 1
    /\ camera = "closed" /\ closes = 1

\* C2: once a device-level failure sent control to the except clause, the
\* caller gets the sentinel (None, None) back: no exception escapes from
\* capture_images, whichever step failed, the constructor included.
C2_FailureReturnsSentinel ==
    (HandedBack /\ result = "None") => (exc = "none" /\ pc # "crashed")

\* C3: result.txt is written at most once; when main has ended it has been
\* written if and only if capture returned its lists and at least one sample
\* was produced; after a capture failure no extraction is made.
C3_WrittenIffSucceeded ==
    /\ Len(sink) <= 1
    /\ pc \in {"done", "crashed"} =>
         (Len(sink) = 1 <=> (result = "lists" /\ Len(speed_data) >= 1))
    /\ result # "lists" => extract_calls = 0

\* C3 witness: a session that ended after writing its one result line.
C3_Witness == pc = "done" /\ result = "lists" /\ Len(sink) = 1 /\ Len(speed_data) >= 1

\* C4: a session with captured images and no sample never reaches the
\* averaging division: the empty sample set is detected before line 222, so
\* no ZeroDivisionError is raised by the averaging step.
C4_EmptySampleSetDetected ==
    /\ pc = "average" => Len(speed_data) >= 1
    /\ exc # "ZeroDivisionError"

\* C5: every sample belongs to a consecutive pair of captured images whose
\* two extractions succeeded, whose identifiers differ, whose distance is not
\* 0 and whose timestamp difference is not 0; a pair with identical latitude
\* and longitude contributes no sample.  The distance and the duration of
\* the sample are those of the two geotags.
C5_SamplesFromValidPairs ==
    \A n \in 1..Len(speed_data) :
       LET e == speed_data[n] IN
       /\ \E k \in 1..(Len(Captured) - 1) : e[1] = Captured[k] /\ e[2] = Captured[k + 1]
       /\ e[1] # e[2]
       /\ e[3] # 0
       /\ e[4] # 0
       /\ pc \in {"for", "average"} =>
            LET data1 == extract_coordinates_and_timestamp(e[1])
                data2 == extract_coordinates_and_timestamp(e[2])
            IN  /\ data1 # None
                /\ data2 # None
                /\ <<data1[1], data1[2]>> # <<data2[1], data2[2]>>
                /\ e[3] = haversine_distance(data1[1][1], data1[2][1],
                                             data2[1][1], data2[2][1])
                /\ e[4] = data2[3] - data1[3]

\* Consecutive captured images k, k+1 both decode, to identical latitude
\* and longitude and to different timestamps.
SamePlace(k) ==
    LET data1 == extract_coordinates_and_timestamp(Captured[k])
        data2 == extract_coordinates_and_timestamp(Captured[k + 1])
    IN  IF data1 = None \/ data2 = None
        THEN FALSE
        ELSE /\ <<data1[1], data1[2]>> = <<data2[1], data2[2]>>
             /\ data1[3] # data2[3]

\* C5 witness: the pair loop is over, a sample was recorded, and another
\* pair with identical coordinates and different timestamps left none.
C5_Witness ==
    /\ pc = "average"
    /\ Len(speed_data) = 1
    /\ Len(images) = 3
    /\ \E k \in 1..2 : SamePlace(k)

\* C6: every recorded sample has distance >= 0, duration > 0 and speed >= 0,
\* whatever timestamps the two extractions returned.
C6_SampleRanges ==
    \A n \in 1..Len(speed_data) :
       /\ speed_data[n][3] >= 0
       /\ speed_data[n][4] > 0
       /\ speed_data[n][5][1] >= 0

\* C7: the number of captured images never exceeds max_images; and when
\* capture_images returns with max_images >= 1, the storage budget not
\* reached and the duration budget not exceeded, exactly max_images images
\* were captured.
C7_ImageCountStop ==
    /\ Len(images) <= arg.max_images
    /\ (Returning /\ arg.max_images >= 1 /\ StorageLeft /\ ~DurationReached)
          => Len(images) = arg.max_images

\* C7 witness: a return by the image-count budget alone, with three images.
C7_Witness ==
    /\ Returning /\ arg.max_images = 3 /\ Len(images) = 3
    /\ StorageLeft /\ ~DurationReached

\* A run of C8: duration budget 0, the other budgets not binding after one
\* capture, and the device did not fail.
ZeroDurationReturn ==
    /\ Returning
    /\ arg.max_capture_duration = 0
    /\ arg.max_images >= 2
    /\ StorageLeft

\* C8 as claimed: with a duration budget of 0 the loop stops after exactly
\* one capture, whatever the clock read at session start and at the capture.
C8_OneCaptureForEveryClock == ZeroDurationReturn => Len(images) = 1

\* C8 amended: with a duration budget of 0 the loop stops after exactly one
\* capture when the clock reading of the first capture is later than the
\* reading of session start, and goes on to a second capture when the two
\* readings are equal.
C8_OneCaptureWhenClockAdvanced ==
    ZeroDurationReturn =>
       /\ timestamps[1] > start_time => Len(images) = 1
       /\ timestamps[1] = start_time => Len(images) >= 2

\* C8 witness: a return after one capture whose reading is later than the start.
C8_Witness == ZeroDurationReturn /\ timestamps[1] > start_time /\ Len(images) = 1

\* C9: with N images captured, cleanup deletes the first max(0, N - 42) of
\* them in capture order, each once, and keeps the last min(N, 42) in their
\* order; nothing is deleted when N <= 42.
C9_RetentionCleanup ==
    LET N == Len(timestamps)
        D == Max(0, N - RetentionCap)
    IN  /\ pc \in {"cleanup", "done"} =>
             /\ removed \o images = Captured
             /\ Len(removed) <= D
             /\ \A a, b \in 1..Len(removed) : a # b => removed[a] # removed[b]
             /\ \A a \in 1..Len(removed) : removed[a] \notin DOMAIN files
             /\ \A a \in 1..Len(images) : images[a] \in DOMAIN files
        /\ (pc = "done" /\ Len(sink) = 1) =>
             /\ removed = SubSeq(Captured, 1, D)
             /\ images = SubSeq(Captured, D + 1, N)
             /\ Len(images) = Min(N, RetentionCap)
        /\ pc \notin {"cleanup", "done"} => removed = <<>>

\* C9 witness: a successful session of 44 images ended with the two oldest deleted.
C9_Witness ==
    /\ pc = "done" /\ Len(sink) = 1
    /\ Len(timestamps) = RetentionCap + 2
    /\ Len(removed) = 2 /\ Len(images) = RetentionCap

\* The GPS block of a file is laid out as the extraction reads it.
HasGpsBlock(f) ==
    /\ f.has_exif
    /\ GPSInfo \in DOMAIN f.exif
    /\ Len(f.exif[GPSInfo]) = 4

\* C10: for the files the pair loop decodes, the returned latitude is the
\* magnitude of key 2 negated exactly when key 1 is "S", and the returned
\* longitude is the magnitude of key 4 negated exactly when key 3 is "W".
C10_HemisphereSign ==
    pc = "for" =>
      \A p \in DOMAIN files :
         LET data == extract_coordinates_and_timestamp(p) IN
         (data # None /\ HasGpsBlock(files[p])) =>
            LET gps_info == files[p].exif[GPSInfo] IN
            /\ data[1][1] = (IF gps_info[1] = "S" THEN -Dms(gps_info[2]) ELSE Dms(gps_info[2]))
            /\ data[2][1] = (IF gps_info[3] = "W" THEN -Dms(gps_info[4]) ELSE Dms(gps_info[4]))

(***************************************************************************)
(* Metadata that extraction cannot use: no metadata at all, no GPS block,  *)
(* no original-capture timestamp, or a malformed field (a GPS block that   *)
(* has fewer than its four entries, a timestamp whose month or second is   *)
(* not one).                                                               *)
(***************************************************************************)
Defective(f) ==
    \/ ~f.has_exif
    \/ GPSInfo \notin DOMAIN f.exif
    \/ DateTimeOriginal \notin DOMAIN f.exif
    \/ /\ f.has_exif
       /\ GPSInfo \in DOMAIN f.exif
       /\ DateTimeOriginal \in DOMAIN f.exif
       /\ \/ Len(f.exif[GPSInfo]) < 4
          \/ f.exif[DateTimeOriginal][2] \notin 1..12
          \/ f.exif[DateTimeOriginal][6] \notin 0..59

DefectiveImage(image_path) ==
    image_path \in DOMAIN files /\ Defective(files[image_path])

\* The latitude and longitude of a geotag, in arc-seconds.
Place(data) == <<data[1][1], data[2][1]>>

\* Pair k of the returned list: both extractions succeed, and the two
\* images have distinct identifiers, distinct coordinates and distinct
\* timestamps.
PairYields(k) ==
    LET data1 == extract_coordinates_and_timestamp(images[k])
        data2 == extract_coordinates_and_timestamp(images[k + 1])
    IN  IF data1 = None \/ data2 = None
        THEN FALSE
        ELSE /\ images[k] # images[k + 1]
             /\ Place(data1) # Place(data2)
             /\ data1[3] # data2[3]

\* C11: extraction of an image with defective metadata returns None without
\* raising; no sample contains such an image; the pair loop still runs over
\* every pair (two extractions per pair) and records every pair that
\* yields; a run that recorded a sample goes on to write its result.
C11_SoftExtractionFailure ==
    /\ \A image_path \in DOMAIN files :
         DefectiveImage(image_path)
             => extract_coordinates_and_timestamp(image_path) = None
    /\ pc \in {"for", "average"} =>
         \A k \in 1..Len(speed_data) :
             /\ ~DefectiveImage(speed_data[k][1])
             /\ ~DefectiveImage(speed_data[k][2])
    /\ pc = "average" =>
         /\ extract_calls = 2 * (Len(images) - 1)
         /\ \A k \in 1..(Len(images) - 1) :
              PairYields(k) =>
                  \E n \in 1..Len(speed_data) :
                      /\ speed_data[n][1] = images[k]
                      /\ speed_data[n][2] = images[k + 1]
    /\ (pc \in {"cleanup", "done", "crashed"} /\ Len(speed_data) >= 1)
           => Len(sink) = 1

C11_Witness ==
    /\ pc = "average"
    /\ Len(images) >= 3
    /\ DefectiveImage(images[1])
    /\ ~DefectiveImage(images[2]) /\ ~DefectiveImage(images[3])
    /\ Len(speed_data) = 1
    /\ speed_data[1][1] = images[2]

\* The pair (k, k+1) of the returned list: both extractions succeed, the
\* paths and the places differ, the two timestamps are equal.
ZeroDurationPair(k) ==
    LET data1 == extract_coordinates_and_timestamp(images[k])
        data2 == extract_coordinates_and_timestamp(images[k + 1])
    IN  /\ data1 # None /\ data2 # None
        /\ images[k] # images[k + 1]
        /\ Place(data1) # Place(data2)
        /\ data2[3] - data1[3] = 0

\* C12: calculate_speed raises on a duration of 0 seconds, and main never
\* calls it with one: a pair the loop went past whose two timestamps are
\* equal left no sample, every recorded sample has a non-zero duration and
\* a speed, and a ZeroDivisionError of main only ever comes from the
\* averaging that follows the completed pair loop.
C12_NoZeroDurationCall ==
    /\ \A distance \in {0, HaversineMetres(0, 0, 1)} :
         calculate_speed(distance, 0) = None
    /\ pc \in {"for", "average"} =>
         \A k \in 1..Min(i - 1, Len(images) - 1) :
            LET data1 == extract_coordinates_and_timestamp(images[k])
                data2 == extract_coordinates_and_timestamp(images[k + 1])
            IN  (data1 # None /\ data2 # None /\ data2[3] - data1[3] = 0) =>
                   \A n \in 1..Len(speed_data) :
                      <<speed_data[n][1], speed_data[n][2]>> # <<images[k], images[k + 1]>>
    /\ \A k \in 1..Len(speed_data) :
         speed_data[k][4] # 0 /\ speed_data[k][5] # None
    /\ exc = "ZeroDivisionError" => (i = Len(images) /\ Len(speed_data) = 0)

C12_Witness ==
    /\ pc = "for"
    /\ i = 3
    /\ ZeroDurationPair(2)
    /\ Len(speed_data) = 1
    /\ speed_data[1][2] = images[2]

\* C13: at the end of the pair loop over N >= 2 images whose consecutive
\* pairs all yield, there are exactly N-1 samples and the k-th pairs image
\* k with image k+1; whatever the images, each sample pairs two images
\* adjacent in the list, in list order.
C13_ConsecutivePairs ==
    /\ (pc = "average" /\ Len(images) >= 2
            /\ \A k \in 1..(Len(images) - 1) : PairYields(k)) =>
         /\ Len(speed_data) = Len(images) - 1
         /\ \A k \in 1..(Len(images) - 1) :
              /\ speed_data[k][1] = images[k]
              /\ speed_data[k][2] = images[k + 1]
    /\ pc \in {"for", "average"} =>
         /\ \A n \in 1..Len(speed_data) :
              \E k \in 1..(Len(images) - 1) :
                  /\ k < i
                  /\ speed_data[n][1] = images[k]
                  /\ speed_data[n][2] = images[k + 1]
         /\ \A m, n \in 1..Len(speed_data) :
              m < n =>
                  \E k, l \in 1..(Len(images) - 1) :
                      /\ k < l
                      /\ speed_data[m][1] = images[k]
                      /\ speed_data[n][1] = images[l]

C13_Witness ==
    /\ pc = "average"
    /\ Len(images) = 3
    /\ \A k \in 1..2 : PairYields(k)
    /\ Len(speed_data) = 2
    /\ speed_data[2][1] = images[2] /\ speed_data[2][2] = images[3]

\* C14: the one value written is the mean of the recorded samples' speeds
\* times 1.05, to two decimals.  With S the sum of the recorded speeds in
\* m/s, n their number and T the half metre of every sample's distance
\* over its duration, the written number h of hundredths of a km/s is
\* within one half of a value between 21 * (S - T) / (200 * n) and
\* 21 * (S + T) / (200 * n).  Pairs without a sample are in neither S nor n.
C14_CorrectedMeanWritten ==
    Len(sink) = 1 =>
        LET n == Len(speed_data)
            S == FracSum([k \in 1..n |-> speed_data[k][5]])
            T == FracSum([k \in 1..n |-> Frac(1, 2 * Abs(speed_data[k][4]))])
            Q(side) == FracMul(FracAdd(S, FracMul(T, <<side, 1>>)), <<21, 200 * n>>)
            h == sink[1]
        IN  /\ n >= 1
            /\ 2 * h - 1 <= (2 * Q(1)[1]) \div Q(1)[2]
            /\ (2 * Q(-1)[1] + Q(-1)[2] - 1) \div Q(-1)[2] <= 2 * h + 1

C14_Witness ==
    /\ Len(sink) = 1
    /\ Len(images) = 3
    /\ Len(speed_data) = 1
    /\ speed_data[1][5] = <<HaversineMetres(0, 0, 1), 10>>
    /\ sink[1] = 1242

\* Elapsed ticks since session start at which capture k began (the clock
\* reading of line 40) and at which it completed.
BeganAt(k) == timestamps[k] - start_time

CompletedAt(k) == timestamps[k] + run.takes - start_time

Budget == arg.max_capture_duration * TicksPerSec

\* C15 as stated: no capture is begun once a capture has completed at an
\* elapsed time beyond the duration budget.
C15_NoCaptureAfterLateCompletion ==
    pc = "capture" => \A k \in 1..Len(timestamps) : CompletedAt(k) <= Budget

\* C15, amended: the budget is tested against the clock reading taken when
\* a capture begins.  Every capture except possibly the last begins within
\* the budget, no capture is begun once one has begun beyond it, and the
\* last begins at most one capture-plus-interval cycle beyond it.
C15_DurationAtCaptureStart ==
    /\ \A k \in 1..(Len(timestamps) - 1) : BeganAt(k) <= Budget
    /\ pc = "capture" => \A k \in 1..Len(timestamps) : BeganAt(k) <= Budget
    /\ Len(timestamps) >= 2 =>
         BeganAt(Len(timestamps))
             <= Budget + run.takes + arg.capture_interval + run.jitter

C15_Witness ==
    /\ pc = "return"
    /\ Len(timestamps) = 2
    /\ CompletedAt(1) > Budget
    /\ BeganAt(1) <= Budget
    /\ BeganAt(2) > Budget

\* The last capture made began beyond the duration budget (line 56 true).
StoppedByDuration ==
    Len(timestamps) >= 1 /\ BeganAt(Len(timestamps)) > Budget

\* C16 as stated: when capture_images returns its lists, every capture has
\* been followed by one pause, the duration-stopping capture included.
C16_PauseAfterEveryCapture ==
    Returning => sleeps = Len(timestamps)

\* C16, amended: every capture is followed by one pause of the full
\* interval, except the capture that triggers the duration stop, which is
\* followed by none: at the loop test as many pauses as captures were
\* made, at the return one fewer after a duration stop, and consecutive
\* captures begin at least a capture and an interval apart.  In any run, one
\* ended by a device failure included, the pauses made are as many as the
\* captures or one fewer.
C16_PauseExceptAfterDurationStop ==
    /\ sleeps \in {Len(timestamps) - 1, Len(timestamps)}
    /\ (pc = "while" /\ result = "pending") => sleeps = Len(timestamps)
    /\ Returning =>
         sleeps = Len(timestamps) - (IF StoppedByDuration THEN 1 ELSE 0)
    /\ \A k \in 2..Len(timestamps) :
         timestamps[k] - timestamps[k - 1] >= run.takes + arg.capture_interval

C16_Witness ==
    /\ Returning
    /\ StoppedByDuration
    /\ Len(timestamps) = 2
    /\ arg.capture_interval > 0
    /\ sleeps = 1
    /\ now = timestamps[2] + run.takes

\* C17 as stated: the loop exits without pausing whichever stopping
\* condition holds after a capture, so at the return the pauses are one
\* fewer than the captures.
C17_NoPauseBeforeExit ==
    (Returning /\ Len(timestamps) >= 1) => sleeps = Len(timestamps) - 1

\* C17, amended: after a capture the loop exits without pausing only on the
\* duration stop.  A capture that reaches the storage or the count budget
\* is still followed by the pause, and the loop test that follows the
\* pause ends the loop; the loop test is never reached after a capture
\* that began beyond the duration budget.
C17_PauseUnlessDurationStop ==
    /\ (Returning /\ Len(timestamps) >= 1 /\ ~StoppedByDuration) =>
         /\ ~LoopCondition
         /\ sleeps = Len(timestamps)
         /\ now = Last(timestamps) + run.takes + arg.capture_interval
    /\ (Returning /\ StoppedByDuration) =>
         /\ sleeps = Len(timestamps) - 1
         /\ now = Last(timestamps) + run.takes
    /\ (pc = "while" /\ result = "pending") => ~StoppedByDuration

C17_Witness ==
    /\ Returning
    /\ Len(timestamps) = 2
    /\ Len(images) = arg.max_images
    /\ ~StoppedByDuration
    /\ arg.capture_interval > 0
    /\ sleeps = 2

\* C18 as stated: a capture_images that returns its lists has captured at
\* least one image, whatever the budgets.
C18_NeverEmpty ==
    Returning => Len(images) >= 1

\* C18, amended: the storage and count budgets are tested before the first
\* capture, the duration budget only after a capture.  The returned list is
\* empty exactly when maxStorageMB is 0 or maxImages is 0; with both
\* positive at least one image is captured for every maxDurationSec, 0
\* included.
C18_EmptyIffZeroBudget ==
    Returning =>
        /\ Len(images) = Len(timestamps)
        /\ Len(images) >= 1 <=> (arg.max_storage_size > 0 /\ arg.max_images >= 1)

C18_Witness ==
    /\ Returning
    /\ arg.max_capture_duration = 0
    /\ arg.max_storage_size > 0 /\ arg.max_images > 1
    /\ Len(images) = 1
    /\ StoppedByDuration

\* No path occurs twice in a list of paths.
Distinct(paths) ==
    \A m, n \in 1..Len(paths) : m # n => paths[m] # paths[n]

\* C19 as stated: the image list never holds the same path twice, whatever
\* the capture interval.
C19_PathsDistinct ==
    Distinct(images)

\* C19, amended: with a capture interval of at least one second the image
\* list never holds the same path twice; then no capture overwrites an
\* earlier image of the session (every captured path that was not removed
\* is a file of its own) and cleanup removes no path twice and never
\* misses a file.
C19_PathsDistinctFromOneSecond ==
    arg.capture_interval >= TicksPerSec =>
        /\ Distinct(images)
        /\ Distinct(Captured)
        /\ Cardinality(DOMAIN files) = Len(timestamps) - Len(removed)
        /\ Distinct(removed)
        /\ exc # "FileNotFoundError"

C19_Witness ==
    /\ Returning
    /\ arg.capture_interval = TicksPerSec
    /\ run.takes = 0
    /\ Len(images) = 3
    /\ images[2] = images[1] + 1
    /\ images[3] = images[2] + 1
    /\ Cardinality(DOMAIN files) = 3

\* Every captured path is still a file of the image directory.
AllKept == \A k \in 1..Len(timestamps) : Captured[k] \in DOMAIN files

\* C20: cleanup runs only after the result was written.  Nothing is removed
\* (and the cleanup loop is not reached) before the write, and a session
\* that ends without a written result, by a failed capture or an empty
\* sample set, has removed no image, however many were captured.
C20_CleanupOnlyAfterWrite ==
    /\ removed # <<>> => Len(sink) = 1
    /\ pc = "cleanup" => Len(sink) = 1
    /\ Len(sink) = 0 => (AllKept /\ Len(images) = Len(timestamps))
    /\ (pc \in {"done", "crashed"} /\ Len(sink) = 0) =>
         (removed = <<>> /\ AllKept)

C20_Witness ==
    /\ pc = "crashed"
    /\ exc = "ZeroDivisionError"
    /\ Len(timestamps) > RetentionCap
    /\ Len(sink) = 0
    /\ removed = <<>>
    /\ AllKept

=============================================================================
